---- MODULE Spec2Model ----
(***************************************************************************)
(* Model of the emitter analysis (src/main.go): the analysis pass `run`,   *)
(* the type resolver `typeFromObj`, and the shell pipeline of the comment  *)
(* "RUNNING THIS CLUNKMEISTER" that joins the two dumped fact tables.      *)
(*                                                                         *)
(* Text is modelled by what the tools see of it.  A word is a tuple of     *)
(* atoms (its pieces, concatenated without white space); a text is a       *)
(* sequence of words in which the word NL stands for a line break; words   *)
(* next to each other in a text are separated by blanks.                   *)
(***************************************************************************)
EXTENDS Naturals, Sequences, FiniteSets, TLC

VARIABLES
  decl,       \* the declaration objects the loader attached to identifiers
  script,     \* the command of the documented script that is running
  pst,        \* per pass (goroutine of the running command): its position
  fileNo,     \* per pass: files of pass.Files entered so far
  nodeNo,     \* per pass: nodes of the current file visited so far
  emitters,   \* per pass: the map `emitters` of the file being walked
  pending,    \* per pass: Printf calls of the current node not yet made
  stdoutLock, \* the pass holding the write lock of os.Stdout, or 0
  writing,    \* the passes inside a write to os.Stdout
  partial,    \* the unfinished last line on the pipe
  ET1,        \* rows of file ET1 (sort -u of the constants dump)
  ET2,        \* rows of file ET2 (sort -u of the call dump)
  mismatches, \* lines the final awk printed
  joins,      \* times the join command ran
  facts,      \* history: the facts the nodes visited so far stand for
  seen,       \* history: per pass, the bindings written in the current file
  last,       \* history: per pass, the node visited last and what it gave
  visits,     \* nodes visited so far under the running command
  rarg,       \* resolver harness: <<o>> once typeFromObj was handed o
  rres        \* resolver harness: what that call produced

(***************************************************************************)
(* Bounds.                                                                 *)
(***************************************************************************)
NumObjs == 2
NumPasses == 2
MaxFiles == 2
MaxVisits == 3

\* Frames the goroutine stack holds before the runtime ends the process
\* with "stack overflow"; any number above NumObjs + 1 shows the same.
MaxDepth == NumObjs + 3

Objs == 1 .. NumObjs

\* o == nil
NilObj == 0

(***************************************************************************)
(* Words and texts.                                                        *)
(***************************************************************************)
NL == <<"\n">>

W(s) == <<s>>

\* a + "." + b
Qual(a, b) == <<a, ".", b>>

Idents == {"pkg", "types", "FooPayload", "BarPayload", "EventA", "EventB",
           "UnknownEventType", "notify", "x", "Other"}

\* A word of the form identifier.identifier
IsQualified(w) == Len(w) = 3 /\ w[2] = "." /\ w[1] \in Idents /\ w[3] \in Idents

\* A text that is one two-part qualified name
Resolved(t) == Len(t) = 1 /\ IsQualified(t[1])

(***************************************************************************)
(* Declaration objects: o.Decl, reduced to what typeFromObj inspects.      *)
(*   form  : the dynamic type of o.Decl                                    *)
(*   shape : FuncDecl   "star"     first result is *pkg.sel                *)
(*                      "nonstar"  a first result of another form          *)
(*                      "none"     no results                              *)
(*           Field      "star"     type is *pkg.sel;  "other" otherwise    *)
(*           AssignStmt "ident"      Lhs[0] ident, Rhs[0] ident (ref)      *)
(*                      "callsel"    Rhs[0] a call through a.b             *)
(*                      "callident"  Rhs[0] a call through an ident (ref)  *)
(*                      "other"      any other Lhs[0] or Rhs[0]            *)
(*   ref   : the Obj of the identifier on the right-hand side, or NilObj   *)
(***************************************************************************)
D(form, shape, pkg, sel, ref) ==
  [form |-> form, shape |-> shape, pkg |-> pkg, sel |-> sel, ref |-> ref]

DeclForms ==
  {D("FuncDecl", "star", "pkg", "FooPayload", NilObj),
   D("FuncDecl", "nonstar", "", "", NilObj),
   D("FuncDecl", "none", "", "", NilObj),
   D("Field", "star", "pkg", "BarPayload", NilObj),
   D("Field", "other", "", "", NilObj),
   D("AssignStmt", "callsel", "", "", NilObj),
   D("AssignStmt", "other", "", "", NilObj),
   D("ValueSpec", "other", "", "", NilObj)}
  \cup {D("AssignStmt", "ident", "", "", r) : r \in Objs \cup {NilObj}}
  \cup {D("AssignStmt", "callident", "", "", r) : r \in Objs \cup {NilObj}}

\* fmt's %T of o.Decl
TypeName(d) == "*ast." \o d.form

\* Variant: the placeholder without the line break in ei
PlaceholderOneLine(tag, d) ==
  << <<"pkg-">> \o tag \o <<"-", TypeName(d), ".sel-">> \o tag >>

\* ei + "." + ese with ei = "pkg-<tag>-%T\n" and ese = "sel-<tag>"
Placeholder(tag, d) ==
  << <<"pkg-">> \o tag \o <<"-", TypeName(d)>>, NL, <<".sel-">> \o tag >>

\* The Printf calls of the FuncDecl arm: "%s => %T %T\n" and "%s ASSIGN\n"
FuncPrints(tag, d) ==
  IF d.form # "FuncDecl" \/ d.shape = "none" THEN <<>>
  ELSE IF d.shape = "star"
  THEN << <<tag, W("=>"), W("*ast.Field"), W("*ast.StarExpr"), NL>>,
          <<tag, W("ASSIGN"), NL>> >>
  ELSE << <<tag, W("=>"), W("*ast.Field"), W("*ast.Ident"), NL>> >>

\* What a call of typeFromObj gave: st is "ok" (err == nil), "err", or
\* "overflow" (the stack ran out before it returned); val the string
\* returned; out the texts it printed; depth the frames it needed.
Ok(t, o, n) == [st |-> "ok", val |-> t, out |-> o, depth |-> n]
Err(n) == [st |-> "err", val |-> <<>>, out |-> <<>>, depth |-> n]
Overflow(n) == [st |-> "overflow", val |-> <<>>, out |-> <<>>, depth |-> n]
NoResult == [st |-> "none", val |-> <<>>, out |-> <<>>, depth |-> 0]

\* Variant: the resolved right-hand identifier is handed on to the caller
AliasResultWired(own, q) ==
  IF q.st \in {"overflow", "ok"} THEN q ELSE Ok(own, q.out, q.depth)

\* Variant: an error of the inner call is handed on to the caller
AliasResultErr(own, q) ==
  IF q.st \in {"overflow", "err"} THEN q ELSE Ok(own, q.out, q.depth)

\* The arm for Rhs[0] an identifier: q, err := typeFromObj(r.Obj, ...) and
\* then `_ = q`; whatever q and err are, the caller gets its own ei.ese
AliasResult(own, q) ==
  IF q.st = "overflow" THEN q ELSE Ok(own, q.out, q.depth)

\* The arm for Rhs[0] a call through an identifier: t is returned when
\* err == nil, the caller's own ei.ese otherwise
CalleeResult(own, t) ==
  IF t.st = "overflow" THEN t
  ELSE IF t.st = "ok" THEN Ok(t.val, t.out, t.depth)
  ELSE Ok(own, t.out, t.depth)

(***************************************************************************)
(* typeFromObj(o, tag), with `frames` calls already on the stack.          *)
(***************************************************************************)
RECURSIVE typeFromObjAt(_, _, _)
typeFromObjAt(o, tag, frames) ==
  IF frames >= MaxDepth THEN Overflow(frames)
  ELSE IF o = NilObj THEN Err(frames + 1)
  ELSE
    LET d == decl[o]
        here == frames + 1
        own == IF d.form \in {"FuncDecl", "Field"} /\ d.shape = "star"
               THEN << Qual(d.pkg, d.sel) >>
               ELSE Placeholder(tag, d)
        prints == FuncPrints(tag, d)
    IN
    IF d.form = "AssignStmt" /\ d.shape = "ident" THEN
      AliasResult(own, typeFromObjAt(d.ref, tag \o <<"-rhs">>, here))
    ELSE IF d.form = "AssignStmt" /\ d.shape = "callident" THEN
      CalleeResult(own, typeFromObjAt(d.ref, tag \o <<"-rhs-obj">>, here))
    ELSE Ok(own, prints, here)

typeFromObj(o, tag) == typeFromObjAt(o, tag, 0)

(***************************************************************************)
(* The pipe from the analysis to grep | awk | sort -u.                     *)
(***************************************************************************)
Last(t) == t[Len(t)]
Front(t) == SubSeq(t, 1, Len(t) - 1)

\* The bytes of b written right after the bytes of a: no blank in between,
\* so an unfinished last word of a runs into the first word of b.
Glue(a, b) ==
  IF a = <<>> THEN b
  ELSE IF b = <<>> THEN a
  ELSE IF Last(a) = NL \/ Head(b) = NL THEN a \o b
  ELSE Front(a) \o << Last(a) \o Head(b) >> \o Tail(b)

\* The lines of a text that end in a line break, in order
RECURSIVE CompleteLines(_)
CompleteLines(t) ==
  IF \A i \in 1 .. Len(t) : t[i] # NL THEN <<>>
  ELSE LET k == CHOOSE i \in 1 .. Len(t) :
                  t[i] = NL /\ \A j \in 1 .. i - 1 : t[j] # NL
       IN <<SubSeq(t, 1, k - 1)>> \o CompleteLines(SubSeq(t, k + 1, Len(t)))

\* What follows the last line break of a text
RECURSIVE Remainder(_)
Remainder(t) ==
  IF \A i \in 1 .. Len(t) : t[i] # NL THEN t
  ELSE LET k == CHOOSE i \in 1 .. Len(t) :
                  t[i] = NL /\ \A j \in 1 .. i - 1 : t[j] # NL
       IN Remainder(SubSeq(t, k + 1, Len(t)))

\* grep 'emitter const': the line holds "emitter const"
GrepConst(line) ==
  \E i \in 1 .. Len(line) - 1 :
    Last(line[i]) = "emitter" /\ Head(line[i + 1]) = "const="

\* grep checkem: the line holds "checkem"
GrepCheckem(line) ==
  \E i \in 1 .. Len(line) : \E j \in 1 .. Len(line[i]) :
    line[i][j] = "checkemitter:"

\* awk's $i: the i-th blank-separated field, empty past the last one
Field(line, i) == IF i <= Len(line) THEN line[i] ELSE <<>>

\* A printed row as the next tool reads it back: the fields that are not
\* empty (leading and repeated blanks separate nothing)
Row(fields) == SelectSeq(fields, LAMBDA w : w # <<>>)

\* awk '{print $3,$7}'
AwkConst(line) == Row(<<Field(line, 3), Field(line, 7)>>)

\* awk '{print $6,$4,$2}'
AwkCheckem(line) == Row(<<Field(line, 6), Field(line, 4), Field(line, 2)>>)

\* The rows the lines of a text add to the table of the running command
RowsOf(cmd, lines) ==
  IF cmd = "ET1"
  THEN {AwkConst(lines[i]) : i \in {j \in 1 .. Len(lines) : GrepConst(lines[j])}}
  ELSE {AwkCheckem(lines[i]) :
          i \in {j \in 1 .. Len(lines) : GrepCheckem(lines[j])}}

\* join ET1 ET2: the rows paired on their first field
JoinRows(t1, t2) ==
  UNION {{r1 \o Tail(r2) : r2 \in {b \in t2 : b # <<>> /\ Head(b) = Head(r1)}} :
           r1 \in {a \in t1 : a # <<>>}}

\* awk 'NF==4 && $2!=$3 {print $4" emits "$3" but "$1" wants "$2}'
Report(rows) ==
  {[call |-> r[4], emits |-> r[3], const |-> r[1], wants |-> r[2]] :
     r \in {q \in rows : Len(q) = 4 /\ q[2] # q[3]}}

(***************************************************************************)
(* Syntax trees, reduced to what run inspects.  An expression:             *)
(*   form "sel"    x.sel with x an identifier                              *)
(*        "ident"  the identifier x, obj its Obj (NilObj when absent)      *)
(*        "lit"    a basic literal                                         *)
(*        "other"  anything else (a call result, a composite, ...)         *)
(***************************************************************************)
E(form, x, sel, obj) == [form |-> form, x |-> x, sel |-> sel, obj |-> obj]
Sel(a, b) == E("sel", a, b, NilObj)
Id(name, o) == E("ident", name, "", o)
Lit == E("lit", "", "", NilObj)
OtherExpr == E("other", "", "", NilObj)

selectorParts(e) ==
  IF e.form = "sel" THEN [err |-> FALSE, i |-> e.x, se |-> e.sel]
  ELSE [err |-> TRUE, i |-> "", se |-> ""]

\* A node handed to the callback of ast.Inspect.
\*   KeyValueExpr  key, iscall (Value is a CallExpr), fun and args of it
\*   CallExpr      fun, args
\*   Field         names, type
\*   GenDecl       tok, specs
Node(kind, key, iscall, fun, args, names, type, tok, specs) ==
  [kind |-> kind, key |-> key, iscall |-> iscall, fun |-> fun, args |-> args,
   names |-> names, type |-> type, tok |-> tok, specs |-> specs]

KeyValue(key, iscall, fun, args) ==
  Node("KeyValueExpr", key, iscall, fun, args, <<>>, OtherExpr, "", <<>>)
Call(fun, args) ==
  Node("CallExpr", OtherExpr, FALSE, fun, args, <<>>, OtherExpr, "", <<>>)
FieldOf(names, type) ==
  Node("Field", OtherExpr, FALSE, OtherExpr, <<>>, names, type, "", <<>>)
GenDecl(tok, specs) ==
  Node("GenDecl", OtherExpr, FALSE, OtherExpr, <<>>, <<>>, OtherExpr, tok, specs)
NoNode ==
  Node("none", OtherExpr, FALSE, OtherExpr, <<>>, <<>>, OtherExpr, "", <<>>)

\* A ValueSpec: its first name, its first value, the text of its line
\* comment (<<>> when q.Comment is nil)
ValueSpec(name, value, comment) ==
  [name |-> name, value |-> value, comment |-> comment]

\* commentStrip.ReplaceAllString(text, ""): drops a leading "//" and the
\* blanks after it, and nothing else
commentStrip(text) ==
  IF text = <<>> \/ Head(Head(text)) # "//" THEN text
  ELSE IF Len(Head(text)) = 1 THEN Tail(text)
  ELSE <<Tail(Head(text))>> \o Tail(text)

\* strings.HasPrefix(name, "Event")
HasPrefixEvent(name) == name \in {"EventA", "EventB", "EventC"}

\* fmt's %d of a line number
LineText(n) == <<"1", "2", "3", "4", "5", "6", "7", "8", "9">>[n]

(***************************************************************************)
(* The Printf calls of one visit, in order, and the emitters map after it. *)
(***************************************************************************)
KeyValuePart(n, em) ==
  IF /\ n.kind = "KeyValueExpr"
     /\ n.key.form = "ident"
     /\ n.iscall
     /\ ~selectorParts(n.fun).err
     /\ Len(n.args) > 0
     /\ ~selectorParts(n.args[1]).err
  THEN LET f == selectorParts(n.fun)
           a == selectorParts(n.args[1])
       IN [outs |-> << <<W("KVE:"), W(n.key.x), Qual(f.i, f.se),
                         Qual(a.i, a.se), NL>>,
                       <<W("emitter:"), <<"(", n.key.x, ")">>, W("=>"),
                         <<"(", a.i, ".", a.se, ")">>, NL>> >>,
           em |-> [k \in DOMAIN em \cup {n.key.x} |->
                     IF k = n.key.x THEN Qual(a.i, a.se) ELSE em[k]]]
  ELSE [outs |-> <<>>, em |-> em]

\* Variant: the first argument is inspected instead of the final one
CallResolveFirstArg(n) ==
  IF /\ n.kind = "CallExpr"
     /\ ~selectorParts(n.fun).err
     /\ Len(n.args) > 0
     /\ Head(n.args).form = "ident"
  THEN typeFromObj(Head(n.args).obj, W(selectorParts(n.fun).se))
  ELSE NoResult

\* The call of typeFromObj a visit makes, NoResult when it makes none
CallResolve(n) ==
  IF /\ n.kind = "CallExpr"
     /\ ~selectorParts(n.fun).err
     /\ Len(n.args) > 0
     /\ Last(n.args).form = "ident"
  THEN typeFromObj(Last(n.args).obj, W(selectorParts(n.fun).se))
  ELSE NoResult

\* The CallSite fact of a visit: the call, the type of its final
\* argument and the constant its method is bound to
NoFact == [call |-> <<>>, method |-> "", t |-> <<>>, v |-> <<>>]

CallFact(n, em) ==
  LET f == selectorParts(n.fun)
      r == CallResolve(n)
  IN IF r.st = "ok" /\ f.se \in DOMAIN em
     THEN [call |-> Qual(f.i, f.se), method |-> f.se, t |-> r.val,
           v |-> em[f.se]]
     ELSE NoFact

CallPart(n, em, line) ==
  LET f == selectorParts(n.fun)
      r == CallResolve(n)
      c == CallFact(n, em)
  IN IF r.st = "none" THEN <<>>
     ELSE (IF Last(n.args).obj = NilObj
           THEN << <<Qual(f.i, f.se), W("OBJ"), W("is"), W("nil"), W("for"),
                     W("some"), W("reason.")>> >>
           ELSE <<>>)
          \o r.out
          \o (IF c # NoFact
              THEN << <<W("checkemitter:"), c.call, W("=>")>> \o c.t
                      \o <<W("=>"), c.v, W("L="), W(LineText(line)), NL>> >>
              ELSE <<>>)

FieldPart(n) ==
  IF n.kind = "Field" /\ Len(n.names) > 0
  THEN << <<W("FIELD"), <<"N=", n.names[1]>>, W("T=&{...}"),
            W("t=*ast.SelectorExpr"), NL>> >>
       \o (IF /\ ~selectorParts(n.type).err
              /\ selectorParts(n.type).i = "rabbitEvents"
              /\ selectorParts(n.type).se = "EventEmitter"
           THEN << <<W("Found"), W("an"), W("emitter:"), W(n.names[1]), NL>> >>
           ELSE <<>>)
  ELSE <<>>

RECURSIVE SpecPrints(_, _)
SpecPrints(specs, pkg) ==
  IF specs = <<>> THEN <<>>
  ELSE LET q == Head(specs)
           hint == IF q.comment # <<>> THEN commentStrip(q.comment)
                   ELSE << Qual("types", "UnknownEventType") >>
       IN (IF q.value.form = "lit" /\ HasPrefixEvent(q.name)
           THEN << <<W("emitter"), W("const="), Qual(pkg, q.name), W("event="),
                     W("\"foo.bar\""), W("type=")>> \o hint \o <<NL>> >>
           ELSE <<>>)
          \o SpecPrints(Tail(specs), pkg)

GenDeclPart(n, pkg) ==
  IF n.kind = "GenDecl" /\ n.tok = "const" THEN SpecPrints(n.specs, pkg) ELSE <<>>

(***************************************************************************)
(* The inputs: the declaration objects and the nodes of the analysed       *)
(* packages.  The script analyses ./types/... and then ./services/... .    *)
(***************************************************************************)
Passes == 1 .. NumPasses

\* pass.Pkg.Name()
PkgName(cmd, p) ==
  IF cmd = "ET1" THEN (IF p = 1 THEN "types" ELSE "events")
  ELSE "services"

\* Declaration objects as go/parser resolves them: an identifier refers to
\* a declaration made before its use, so no object refers to a later one.
ProgDecl ==
  << D("Field", "star", "pkg", "BarPayload", NilObj),
     D("FuncDecl", "star", "pkg", "FooPayload", NilObj),
     D("AssignStmt", "callident", "", "", 2),
     D("AssignStmt", "ident", "", "", 1),
     D("AssignStmt", "ident", "", "", NilObj),
     D("AssignStmt", "callsel", "", "", NilObj) >>

Emit(const) ==
  KeyValue(Id("notify", NilObj), TRUE, Sel("rabbitEvents", "Emit"),
           <<Sel("types", const)>>)

NotifyWith(method, arg) ==
  Call(Sel("x", method), <<Sel("rabbitEvents", "Create"), arg>>)

BindNodes ==
  {Emit("EventA"), Emit("EventB"),
   KeyValue(Id("notify", NilObj), TRUE, Id("Emit", NilObj),
            <<Sel("types", "EventA")>>)}

CallNodes ==
  {NotifyWith("notify", Id("p", o)) : o \in {1, 3, 4, 5}}
  \cup {NotifyWith("notify", Id("p", NilObj)),
        NotifyWith("notify", OtherExpr),
        NotifyWith("send", Id("p", 1)),
        Call(Id("notify", NilObj), <<Id("p", 1)>>),
        Call(Sel("x", "notify"), <<>>)}

FieldNodes == {FieldOf(<<"notify">>, Sel("rabbitEvents", "EventEmitter"))}

FooSpec == ValueSpec("EventA", Lit, <<W("//"), Qual("pkg", "FooPayload")>>)
BarSpec == ValueSpec("EventB", Lit, << <<"//", "pkg", ".", "BarPayload">> >>)
BareSpec == ValueSpec("EventC", Lit, <<>>)

ConstNodes ==
  {GenDecl("const", <<FooSpec, BarSpec>>), GenDecl("const", <<BareSpec>>)}

\* The nodes of the two trees the script analyses
NodesOf(cmd) ==
  IF cmd = "ET1" THEN ConstNodes
  ELSE {Emit("EventA"), NotifyWith("notify", Id("p", 1)),
        NotifyWith("notify", Id("p", 4)), NotifyWith("notify", Id("p", NilObj))}

\* The nodes of a tree analysed on its own
WalkNodes ==
  BindNodes \cup CallNodes \cup FieldNodes
  \cup {GenDecl("const", <<FooSpec, BarSpec>>)}

(***************************************************************************)
(* History: the facts of the data model a visit stands for.                *)
(*   const  name the qualified name, typ the declared type                 *)
(*   bind   name the local name, val the channel constant, file the file   *)
(*          and at the position of the write among the visits              *)
(*   call   name the method, typ the inferred type, val the constant the   *)
(*          method was bound to                                            *)
(***************************************************************************)
Fact(kind, name, val, typ, file, at) ==
  [kind |-> kind, name |-> name, val |-> val, typ |-> typ, file |-> file,
   at |-> at]

\* The declared type a line comment gives: what follows its marker
Annotation(comment) ==
  IF comment = <<>> THEN << Qual("types", "UnknownEventType") >>
  ELSE IF Len(Head(comment)) = 1 THEN Tail(comment)
  ELSE <<Tail(Head(comment))>> \o Tail(comment)

RECURSIVE ConstFacts(_, _)
ConstFacts(specs, pkg) ==
  IF specs = <<>> THEN {}
  ELSE LET q == Head(specs)
       IN (IF q.value.form = "lit" /\ HasPrefixEvent(q.name)
           THEN {Fact("const", Qual(pkg, q.name), <<>>, Annotation(q.comment),
                      <<>>, 0)}
           ELSE {})
          \cup ConstFacts(Tail(specs), pkg)

\* The binding a node stands for, as the emitter-binding pattern is
\* described: a key/value pair whose value is a call through a qualified
\* reference with a qualified reference as its first argument
IsBinding(n) ==
  /\ n.kind = "KeyValueExpr" /\ n.key.form = "ident" /\ n.iscall
  /\ n.fun.form = "sel"
  /\ n.args # <<>> /\ Head(n.args).form = "sel"

BoundConst(n) == Qual(Head(n.args).x, Head(n.args).sel)

FactsOf(n, pkg, file, at, call) ==
  (IF n.kind = "GenDecl" /\ n.tok = "const" THEN ConstFacts(n.specs, pkg)
   ELSE {})
  \cup (IF IsBinding(n)
        THEN {Fact("bind", W(n.key.x), BoundConst(n), <<>>, file, at)}
        ELSE {})
  \cup (IF call # NoFact
        THEN {Fact("call", W(call.method), call.v, call.t, <<>>, 0)}
        ELSE {})

(***************************************************************************)
(* The analysis and the script around it.                                  *)
(***************************************************************************)
NoVisit == [node |-> NoNode, res |-> NoResult, fact |-> NoFact]

Init ==
  /\ decl = ProgDecl
  /\ script = "ET1"
  /\ pst = [p \in Passes |-> "not-started"]
  /\ fileNo = [p \in Passes |-> 0]
  /\ nodeNo = [p \in Passes |-> 0]
  /\ emitters = [p \in Passes |-> <<>>]
  /\ pending = [p \in Passes |-> <<>>]
  /\ stdoutLock = 0
  /\ writing = {}
  /\ partial = <<>>
  /\ ET1 = {}
  /\ ET2 = {}
  /\ mismatches = {}
  /\ joins = 0
  /\ facts = {}
  /\ seen = [p \in Passes |-> <<>>]
  /\ last = [p \in Passes |-> NoVisit]
  /\ visits = 0
  /\ rarg = <<>>
  /\ rres = NoResult

Collecting == script \in {"ET1", "ET2"}

\* The driver calls run(pass) in a goroutine of its own
Start(p) ==
  /\ Collecting
  /\ pst[p] = "not-started"
  /\ pst' = [pst EXCEPT ![p] = "walking"]
  /\ UNCHANGED <<decl, script, fileNo, nodeNo, emitters, pending, stdoutLock,
                 writing, partial, ET1, ET2, mismatches, joins, facts, seen,
                 last, visits, rarg, rres>>

\* Variant: the map of the file before is kept
OldTable(p) == emitters[p]

\* emitters := make(map[string]string)
NewTable(p) == <<>>

\* for _, file := range pass.Files { emitters := ...
NextFile(p) ==
  /\ pst[p] = "walking"
  /\ pending[p] = <<>>
  /\ fileNo[p] < MaxFiles
  /\ fileNo' = [fileNo EXCEPT ![p] = @ + 1]
  /\ nodeNo' = [nodeNo EXCEPT ![p] = 0]
  /\ emitters' = [emitters EXCEPT ![p] = NewTable(p)]
  /\ seen' = [seen EXCEPT ![p] = <<>>]
  /\ last' = [last EXCEPT ![p] = NoVisit]
  /\ UNCHANGED <<decl, script, pst, pending, stdoutLock, writing, partial,
                 ET1, ET2, mismatches, joins, facts, visits, rarg, rres>>

\* Variant: one map for the whole process
TableOfShared(p) == emitters[1]

\* The map the callback of pass p reads and writes: `emitters`, made anew
\* inside the loop over pass.Files
TableOf(p) == emitters[p]

\* The callback of ast.Inspect on one node
Visit(p, n) ==
  /\ pst[p] = "walking"
  /\ pending[p] = <<>>
  /\ fileNo[p] >= 1
  /\ visits < MaxVisits
  /\ visits' = visits + 1
  /\ LET line == nodeNo[p] + 1
         kv == KeyValuePart(n, TableOf(p))
         res == CallResolve(n)
         call == CallFact(n, kv.em)
         outs == kv.outs \o CallPart(n, kv.em, line) \o FieldPart(n)
                 \o GenDeclPart(n, PkgName(script, p))
     IN /\ nodeNo' = [nodeNo EXCEPT ![p] = line]
        /\ emitters' = [emitters EXCEPT ![p] = kv.em]
        /\ pending' = [pending EXCEPT ![p] = outs]
        /\ pst' = [pst EXCEPT ![p] =
                     IF res.st = "overflow" THEN "crashed" ELSE @]
        /\ facts' = facts \cup FactsOf(n, PkgName(script, p),
                                       <<p, fileNo[p]>>, visits' , call)
        /\ seen' = [seen EXCEPT ![p] =
                      IF IsBinding(n)
                      THEN [k \in DOMAIN @ \cup {n.key.x} |->
                              IF k = n.key.x THEN BoundConst(n) ELSE @[k]]
                      ELSE @]
        /\ last' = [last EXCEPT ![p] =
                      [node |-> n, res |-> res, fact |-> call]]
  /\ UNCHANGED <<decl, script, fileNo, stdoutLock, writing, partial, ET1, ET2,
                 mismatches, joins, rarg, rres>>

\* Variant: a write that does not take the lock
BeginWriteUnlocked(p) ==
  /\ pst[p] = "walking"
  /\ pending[p] # <<>>
  /\ p \notin writing
  /\ stdoutLock' = p
  /\ writing' = writing \cup {p}
  /\ UNCHANGED <<decl, script, pst, fileNo, nodeNo, emitters, pending, partial,
                 ET1, ET2, mismatches, joins, facts, seen, last, visits, rarg,
                 rres>>

\* fmt.Printf: the write to os.Stdout takes the write lock of the file ...
BeginWrite(p) ==
  /\ pst[p] = "walking"
  /\ pending[p] # <<>>
  /\ p \notin writing
  /\ stdoutLock = 0
  /\ stdoutLock' = p
  /\ writing' = writing \cup {p}
  /\ UNCHANGED <<decl, script, pst, fileNo, nodeNo, emitters, pending, partial,
                 ET1, ET2, mismatches, joins, facts, seen, last, visits, rarg,
                 rres>>

\* ... writes the whole text, which grep | awk | sort -u take line by
\* line, and gives the lock back
EndWrite(p) ==
  /\ p \in writing
  /\ LET text == Glue(partial, Head(pending[p]))
         rows == RowsOf(script, CompleteLines(text))
     IN /\ partial' = Remainder(text)
        /\ ET1' = IF script = "ET1" THEN ET1 \cup rows ELSE ET1
        /\ ET2' = IF script = "ET2" THEN ET2 \cup rows ELSE ET2
  /\ pending' = [pending EXCEPT ![p] = Tail(@)]
  /\ writing' = writing \ {p}
  /\ stdoutLock' = 0
  /\ UNCHANGED <<decl, script, pst, fileNo, nodeNo, emitters, mismatches,
                 joins, facts, seen, last, visits, rarg, rres>>

\* return nil, nil
Return(p) ==
  /\ pst[p] = "walking"
  /\ pending[p] = <<>>
  /\ pst' = [pst EXCEPT ![p] = "done"]
  /\ UNCHANGED <<decl, script, fileNo, nodeNo, emitters, pending, stdoutLock,
                 writing, partial, ET1, ET2, mismatches, joins, facts, seen,
                 last, visits, rarg, rres>>

\* Variant: the driver exits as soon as one pass has returned
SomePassDone == \E p \in Passes : pst[p] = "done"

\* singlechecker.Main returns from the analysis once every pass has
AllPassesDone == \A p \in Passes : pst[p] = "done"

\* singlechecker.Main has waited for every pass and calls os.Exit; the
\* pipe closes, grep takes an unfinished last line as a line, sort writes
\* the table, and the shell goes on to the next command of the script:
\* the analysis of the second tree, with passes of its own, or the join
Exit ==
  /\ Collecting
  /\ AllPassesDone
  /\ LET rows == IF partial = <<>> THEN {} ELSE RowsOf(script, <<partial>>)
     IN /\ ET1' = IF script = "ET1" THEN ET1 \cup rows ELSE ET1
        /\ ET2' = IF script = "ET2" THEN ET2 \cup rows ELSE ET2
  /\ partial' = <<>>
  /\ script' = IF script = "ET1" THEN "ET2" ELSE "join"
  /\ IF script = "ET1"
     THEN /\ pst' = [p \in Passes |-> "not-started"]
          /\ fileNo' = [p \in Passes |-> 0]
          /\ nodeNo' = [p \in Passes |-> 0]
          /\ emitters' = [p \in Passes |-> <<>>]
          /\ seen' = [p \in Passes |-> <<>>]
          /\ last' = [p \in Passes |-> NoVisit]
          /\ visits' = 0
     ELSE UNCHANGED <<pst, fileNo, nodeNo, emitters, seen, last, visits>>
  /\ UNCHANGED <<decl, pending, stdoutLock, writing, mismatches, joins, facts,
                 rarg, rres>>

\* join ET1 ET2 | awk 'NF==4 && $2!=$3 {...}'
Join ==
  /\ script = "join"
  /\ mismatches' = Report(JoinRows(ET1, ET2))
  /\ joins' = joins + 1
  /\ script' = "done"
  /\ UNCHANGED <<decl, pst, fileNo, nodeNo, emitters, pending, stdoutLock,
                 writing, partial, ET1, ET2, facts, seen, last, visits, rarg,
                 rres>>

Next ==
  \/ \E p \in Passes : Start(p)
  \/ \E p \in Passes : NextFile(p)
  \/ \E p \in Passes : \E n \in NodesOf(script) : Visit(p, n)
  \/ \E p \in Passes : BeginWrite(p)
  \/ \E p \in Passes : EndWrite(p)
  \/ \E p \in Passes : Return(p)
  \/ Exit
  \/ Join

vars == <<decl, script, pst, fileNo, nodeNo, emitters, pending, stdoutLock,
          writing, partial, ET1, ET2, mismatches, joins, facts, seen, last,
          visits, rarg, rres>>

Spec == Init /\ [][Next]_vars

(***************************************************************************)
(* One tree analysed on its own (./whatevs ./services/... | grep checkem   *)
(* ...), over every kind of node, with ET1 as the analysis of a types      *)
(* package that declares EventA and EventB leaves it.                      *)
(***************************************************************************)
TypesTable ==
  RowsOf("ET1",
         CompleteLines(Head(SpecPrints(<<FooSpec>>, "types"))
                       \o Head(SpecPrints(<<BarSpec>>, "types"))))

InitWalk ==
  /\ decl = ProgDecl
  /\ script = "ET2"
  /\ pst = [p \in Passes |-> "not-started"]
  /\ fileNo = [p \in Passes |-> 0]
  /\ nodeNo = [p \in Passes |-> 0]
  /\ emitters = [p \in Passes |-> <<>>]
  /\ pending = [p \in Passes |-> <<>>]
  /\ stdoutLock = 0
  /\ writing = {}
  /\ partial = <<>>
  /\ ET1 = TypesTable
  /\ ET2 = {}
  /\ mismatches = {}
  /\ joins = 0
  /\ facts = {}
  /\ seen = [p \in Passes |-> <<>>]
  /\ last = [p \in Passes |-> NoVisit]
  /\ visits = 0
  /\ rarg = <<>>
  /\ rres = NoResult

NextWalk ==
  \/ \E p \in Passes : Start(p)
  \/ \E p \in Passes : NextFile(p)
  \/ \E p \in Passes : \E n \in WalkNodes : Visit(p, n)
  \/ \E p \in Passes : BeginWrite(p)
  \/ \E p \in Passes : EndWrite(p)
  \/ \E p \in Passes : Return(p)
  \/ Exit
  \/ Join

SpecWalk == InitWalk /\ [][NextWalk]_vars

(***************************************************************************)
(* Resolver harness: typeFromObj applied to every declaration graph over   *)
(* Objs, circular ones included.                                           *)
(***************************************************************************)
ResolveTag == <<"notify">>

InitResolve ==
  /\ decl \in [Objs -> DeclForms]
  /\ script = "done"
  /\ pst = [p \in Passes |-> "done"]
  /\ fileNo = [p \in Passes |-> 0]
  /\ nodeNo = [p \in Passes |-> 0]
  /\ emitters = [p \in Passes |-> <<>>]
  /\ pending = [p \in Passes |-> <<>>]
  /\ stdoutLock = 0
  /\ writing = {}
  /\ partial = <<>>
  /\ ET1 = {}
  /\ ET2 = {}
  /\ mismatches = {}
  /\ joins = 0
  /\ facts = {}
  /\ seen = [p \in Passes |-> <<>>]
  /\ last = [p \in Passes |-> NoVisit]
  /\ visits = 0
  /\ rarg = <<>>
  /\ rres = NoResult

Resolve(o) ==
  /\ rarg = <<>>
  /\ rarg' = <<o>>
  /\ rres' = typeFromObj(o, ResolveTag)
  /\ UNCHANGED <<decl, script, pst, fileNo, nodeNo, emitters, pending,
                 stdoutLock, writing, partial, ET1, ET2, mismatches, joins,
                 facts, seen, last, visits>>

NextResolve == \E o \in Objs \cup {NilObj} : Resolve(o)

SpecResolve == InitResolve /\ [][NextResolve]_vars

(***************************************************************************)
(* Properties of typeFromObj.                                              *)
(***************************************************************************)
Called == rarg # <<>>
Arg == rarg[1]

IsAlias(o) ==
  o # NilObj /\ decl[o].form = "AssignStmt" /\ decl[o].shape = "ident"

\* C9: for an identifier declared by an assignment whose right-hand side
\* is a plain identifier, whenever typeFromObj returns it returns the
\* placeholder of the outer identifier, whatever the resolution of the
\* right-hand identifier gave.
C9_AliasDiscarded ==
  (Called /\ IsAlias(Arg) /\ rres.st # "overflow")
    => rres = Ok(Placeholder(ResolveTag, decl[Arg]), rres.out, rres.depth)

\* C9 witness: the right-hand identifier resolved to a qualified type, and
\* the caller still got the placeholder.
C9_Witness ==
  /\ Called /\ IsAlias(Arg) /\ rres.st = "ok"
  /\ decl[Arg].ref # NilObj
  /\ Resolved(typeFromObj(decl[Arg].ref, ResolveTag \o <<"-rhs">>).val)
  /\ ~Resolved(rres.val)

(***************************************************************************)
(* Properties of the analysis and of the script.                           *)
(***************************************************************************)
Calls == {f \in facts : f.kind = "call"}
Binds == {f \in facts : f.kind = "bind"}
Consts == {f \in facts : f.kind = "const"}

\* C1: after a run, a mismatch is reported if and only if there are a
\* CallSite, an EmitterBinding with its method as local name and a
\* ConstantDeclaration with that binding's constant as qualified name, such
\* that the inferred and the declared type are both resolved and unequal.
C1_MismatchIff ==
  script = "done" =>
    ((mismatches # {}) <=>
       \E c \in Calls, b \in Binds, k \in Consts :
         /\ c.name = b.name
         /\ b.val = k.name
         /\ Resolved(c.typ) /\ Resolved(k.typ)
         /\ c.typ # k.typ)

\* C2: no mismatch is reported for a call whose final argument came back
\* unresolved: what a mismatch says is emitted is a qualified type name, the
\* inferred type of a CallSite, and no piece of an unresolved one.
C2_UnresolvedExcluded ==
  \A m \in mismatches :
    /\ IsQualified(m.emits)
    /\ \E c \in Calls : c.typ = <<m.emits>> /\ c.val = m.const
    /\ \A c \in Calls :
         ~Resolved(c.typ) => \A i \in 1 .. Len(c.typ) : c.typ[i] # m.emits

\* C2 witness: the run is over, and a call bound to a declared constant had
\* an unresolved final argument.
C2_Witness ==
  /\ script = "done"
  /\ \E c \in Calls : ~Resolved(c.typ) /\ \E r \in ET1 : r[1] = c.val

Phase ==
  IF Collecting THEN "collecting"
  ELSE IF script = "join" THEN "correlating" ELSE "reported"

\* C3: the join runs exactly once, and only when every pass is done and
\* nothing is left to write; the process goes collecting -> correlating ->
\* reported and no other way; no mismatch is computed while a file is walked.
C3_CorrelateOnce ==
  /\ [](/\ joins = (IF script = "done" THEN 1 ELSE 0)
        /\ ~Collecting =>
             /\ \A p \in Passes : pst[p] = "done" /\ pending[p] = <<>>
             /\ writing = {}
        /\ mismatches # {} => script = "done")
  /\ [][/\ <<Phase, Phase'>> \in
             {<<"collecting", "collecting">>, <<"collecting", "correlating">>,
              <<"correlating", "reported">>}
        /\ (mismatches' # mismatches \/ joins' # joins) =>
             /\ script = "join"
             /\ \A p \in Passes : pst[p] = "done"]_vars

\* C3 witness: the join has run and found a mismatch.
C3_Witness == script = "done" /\ joins = 1 /\ mismatches # {}

IsRowText(text) ==
  \E i \in 1 .. Len(CompleteLines(text)) :
    IF script = "ET1" THEN GrepConst(CompleteLines(text)[i])
    ELSE GrepCheckem(CompleteLines(text)[i])

Correlated == JoinRows(ET1, ET2)

\* C6: when two files bind one local name to two constants, every
\* correlated row of a call through that name uses the binding written
\* later, and the other never.
C6_LaterBindingWins ==
  script = "done" =>
    \A b1 \in Binds, b2 \in Binds :
      (/\ b1.name = b2.name /\ b1.file # b2.file /\ b1.val # b2.val
       /\ b1.at < b2.at)
      => \A r \in Correlated :
           (Len(r) = 4 /\ Len(r[4]) = 3 /\ <<r[4][3]>> = b1.name)
             => r[1] # b1.val

\* C6, amended: the constant of a CallSite fact is the one its method was
\* bound to last in its own file, whatever other files bound it to.
C6_OwnFileBinding ==
  \A p \in Passes :
    last[p].fact # NoFact =>
      /\ last[p].fact.method \in DOMAIN seen[p]
      /\ last[p].fact.v = seen[p][last[p].fact.method]

\* C6 witness: two files bound one name to two constants, and the join
\* paired a call with the constant written first.
C6_Witness ==
  /\ script = "done"
  /\ \E b1 \in Binds, b2 \in Binds :
       /\ b1.name = b2.name /\ b1.file # b2.file /\ b1.val # b2.val
       /\ b1.at < b2.at
       /\ \E r \in Correlated :
            Len(r) = 4 /\ Len(r[4]) = 3 /\ <<r[4][3]>> = b1.name
            /\ r[1] = b1.val

\* The call-site pattern as it is described: a call through a qualified
\* reference, with an argument, whose final argument is an identifier with
\* a declaration object
IsCallSite(n) ==
  /\ n.kind = "CallExpr"
  /\ n.fun.form = "sel"
  /\ n.args # <<>>
  /\ Last(n.args).form = "ident"
  /\ Last(n.args).obj # NilObj

\* C7: a visit gives a CallSite fact exactly when the node matches the
\* call-site pattern and its method was bound by a node visited before it
\* in the file.
C7_CallSiteExactly ==
  \A p \in Passes :
    last[p].node # NoNode =>
      ((last[p].fact # NoFact) <=>
         (IsCallSite(last[p].node) /\ last[p].node.fun.sel \in DOMAIN seen[p]))

\* C7 witness: a call-site fact was emitted and is on its way out.
C7_Witness ==
  \E p \in Passes :
    /\ last[p].fact # NoFact
    /\ pending[p] # <<>> /\ GrepCheckem(Head(pending[p]))

\* C8: no pass is ended by the runtime; typeFromObj fails exactly for a
\* call-site whose final identifier has no declaration object, an absent
\* object further down gives a placeholder; after the last command every
\* pass has returned.
C8_NoAbort ==
  \A p \in Passes :
    LET n == last[p].node
        shaped == /\ n.kind = "CallExpr" /\ n.fun.form = "sel"
                  /\ n.args # <<>> /\ Last(n.args).form = "ident"
    IN /\ pst[p] # "crashed"
       /\ last[p].res.st \in {"none", "ok", "err"}
       /\ (last[p].res.st = "err") <=> (shaped /\ Last(n.args).obj = NilObj)
       /\ (shaped /\ Last(n.args).obj # NilObj) => last[p].res.st = "ok"
       /\ ~Collecting => pst[p] = "done"

\* C8 witness: a call with an absent declaration object was visited, a
\* later node still gave its fact, and the run came to its end.
C8_Witness ==
  /\ script = "done"
  /\ <<W("some"), W("nil"), W("OBJ")>> \in ET2
  /\ \E p \in Passes :
       /\ IsCallSite(last[p].node)
       /\ decl[Last(last[p].node.args).obj].shape = "ident"
       /\ decl[Last(last[p].node.args).obj].ref = NilObj
       /\ last[p].res.st = "ok"
       /\ ~Resolved(last[p].res.val)

\* C10: entering a file empties the table of the pass, a step of one pass
\* leaves the tables of the others alone, and a CallSite fact is emitted
\* only for a method bound before in the same file.
C10_FilePrivate ==
  [][\A p \in Passes :
       /\ fileNo'[p] # fileNo[p] => emitters'[p] = <<>>
       /\ (fileNo'[p] # fileNo[p] \/ nodeNo'[p] # nodeNo[p]) =>
            \A q \in Passes \ {p} : emitters'[q] = emitters[q]
       /\ (last'[p] # last[p] /\ last'[p].fact # NoFact) =>
            last'[p].fact.method \in DOMAIN seen[p]]_vars

\* C10 witness: a call through a name bound only in the file another pass
\* is walking gave no fact.
C10_Witness ==
  \E p \in Passes : \E q \in Passes \ {p} :
    /\ pst[p] = "walking" /\ pst[q] = "walking"
    /\ "notify" \in DOMAIN emitters[q]
    /\ "notify" \notin DOMAIN seen[p]
    /\ IsCallSite(last[p].node) /\ last[p].node.fun.sel = "notify"
    /\ last[p].fact = NoFact

====
